---- MODULE Spec2Model ----
(***************************************************************************)
(* Model of the OBU front-end of av1-obu-parser: ObuType::try_from,         *)
(* ObuHeaderExtension::decode, ObuHeader::decode and ObuParser::parse       *)
(* (src/src/obu/mod.rs), with Frame::decode (src/src/obu/frame.rs).         *)
(* The bit cursor (crate::buffer::Buffer) and SequenceHeader::decode are    *)
(* not part of the available sources; they are modelled from the written    *)
(* specification (sections 4.1 and 6).                                      *)
(***************************************************************************)
EXTENDS Integers, Sequences, FiniteSets, TLC

\* ------------------------------------------------------------------------
\* Bounds of the model
\* ------------------------------------------------------------------------

\* Longest byte window handed to the parser.
MaxLen == 5

\* Bytes a window of the stream model is built from.  As OBU header bytes:
\*   0  Reserved(0)            8  SequenceHeader          10 SequenceHeader+size
\*   16 TemporalDelimiter      18 TemporalDelimiter+size  20 TemporalDelimiter+ext
\*   48 Frame                  52 Frame+ext               54 Frame+ext+size
\*   129 forbidden bit and reserved bit set, Reserved(0)
\* As extension bytes: 0 = {0,0}, 32 = {1,0}, 72 = {2,1}.
\* As leb128 bytes: 0, 1 terminate, 129 continues.
ByteSet == {0, 8, 16, 22, 54, 129}

\* Values of operating_point_idc a sequence header may select.
OpIdcSet == {0, 257}

\* ------------------------------------------------------------------------
\* Option / Result values
\* ------------------------------------------------------------------------

None == <<"None">>

Some(x) == <<"Some", x>>

Ok(x) == <<"Ok", x>>

Err(e) == <<"Err", e>>

Pow2(n) == 2 ^ n

\* Rust `a >> n` on a non-negative integer.
Shr(a, n) == a \div Pow2(n)

\* ------------------------------------------------------------------------
\* Buffer: bit cursor over a borrowed byte slice (spec section 4.1).
\* A read is a record [ok, val, pos]; ok = FALSE is a read or seek past the
\* end of the window.
\* ------------------------------------------------------------------------

BitAt(b, p) == Shr(b[(p \div 8) + 1], 7 - (p % 8)) % 2

RECURSIVE BitsValue(_, _, _)
BitsValue(b, p, n) ==
  IF n = 0 THEN 0 ELSE 2 * BitsValue(b, p, n - 1) + BitAt(b, p + n - 1)

get_bits(b, p, n) ==
  IF p + n > 8 * Len(b)
  THEN [ok |-> FALSE, val |-> 0, pos |-> p]
  ELSE [ok |-> TRUE, val |-> BitsValue(b, p, n), pos |-> p + n]

get_bit(b, p) ==
  LET r == get_bits(b, p, 1)
  IN [ok |-> r.ok, val |-> (r.ok /\ r.val = 1), pos |-> r.pos]

seek_bits(b, p, n) ==
  IF p + n > 8 * Len(b)
  THEN [ok |-> FALSE, val |-> 0, pos |-> p]
  ELSE [ok |-> TRUE, val |-> 0, pos |-> p + n]

RECURSIVE leb128_loop(_, _, _, _)
leb128_loop(b, p, i, acc) ==
  IF i = 8
  THEN [ok |-> TRUE, val |-> acc, pos |-> p]
  ELSE LET r == get_bits(b, p, 8)
       IN IF ~r.ok
          THEN [ok |-> FALSE, val |-> 0, pos |-> p]
          ELSE LET v == acc + (r.val % 128) * Pow2(7 * i)
               IN IF r.val < 128
                  THEN [ok |-> TRUE, val |-> v, pos |-> r.pos]
                  ELSE leb128_loop(b, r.pos, i + 1, v)

get_leb128(b, p) == leb128_loop(b, p, 0, 0)

\* ------------------------------------------------------------------------
\* ObuType
\* ------------------------------------------------------------------------

Reserved(v) == <<"Reserved", v>>

SequenceHeader == <<"SequenceHeader">>

TemporalDelimiter == <<"TemporalDelimiter">>

FrameHeader == <<"FrameHeader">>

TileGroup == <<"TileGroup">>

Metadata == <<"Metadata">>

Frame == <<"Frame">>

RedundantFrameHeader == <<"RedundantFrameHeader">>

TileList == <<"TileList">>

Padding == <<"Padding">>

\* Mutant: the reserved range stops at 13 and Padding is matched as 14.
ObuType_try_from_off_by_one(value) ==
  IF value = 0 \/ (value >= 9 /\ value <= 13) THEN Ok(Reserved(value))
  ELSE IF value = 1 THEN Ok(SequenceHeader)
  ELSE IF value = 2 THEN Ok(TemporalDelimiter)
  ELSE IF value = 3 THEN Ok(FrameHeader)
  ELSE IF value = 4 THEN Ok(TileGroup)
  ELSE IF value = 5 THEN Ok(Metadata)
  ELSE IF value = 6 THEN Ok(Frame)
  ELSE IF value = 7 THEN Ok(RedundantFrameHeader)
  ELSE IF value = 8 THEN Ok(TileList)
  ELSE IF value = 14 THEN Ok(Padding)
  ELSE Err("Unknown(ObuHeaderType)")

ObuType_try_from(value) ==
  IF value = 0 \/ (value >= 9 /\ value <= 14) THEN Ok(Reserved(value))
  ELSE IF value = 1 THEN Ok(SequenceHeader)
  ELSE IF value = 2 THEN Ok(TemporalDelimiter)
  ELSE IF value = 3 THEN Ok(FrameHeader)
  ELSE IF value = 4 THEN Ok(TileGroup)
  ELSE IF value = 5 THEN Ok(Metadata)
  ELSE IF value = 6 THEN Ok(Frame)
  ELSE IF value = 7 THEN Ok(RedundantFrameHeader)
  ELSE IF value = 8 THEN Ok(TileList)
  ELSE IF value = 15 THEN Ok(Padding)
  ELSE Err("Unknown(ObuHeaderType)")

\* ------------------------------------------------------------------------
\* ObuHeaderExtension::decode and ObuHeader::decode.
\* A decode is a record [status, header, pos]: status "ok", "bounds" (a
\* cursor read or seek passed the end of the window) or "err" (the `?` on
\* ObuType::try_from took the Err branch).
\* ------------------------------------------------------------------------

NoExt == [temporal_id |-> 0, spatial_id |-> 0]

ExtFail(p) == [ok |-> FALSE, ext |-> NoExt, pos |-> p]

\* Mutant: the two fields are read with their widths exchanged.
ObuHeaderExtension_decode_swapped(b, p) ==
  LET t == get_bits(b, p, 2)
  IN IF ~t.ok THEN ExtFail(t.pos)
     ELSE LET s == get_bits(b, t.pos, 3)
          IN IF ~s.ok THEN ExtFail(s.pos)
             ELSE LET k == seek_bits(b, s.pos, 3)
                  IN IF ~k.ok THEN ExtFail(k.pos)
                     ELSE [ok |-> TRUE,
                           ext |-> [temporal_id |-> t.val % 256,
                                    spatial_id |-> s.val % 256],
                           pos |-> k.pos]

ObuHeaderExtension_decode(b, p) ==
  LET t == get_bits(b, p, 3)
  IN IF ~t.ok THEN ExtFail(t.pos)
     ELSE LET s == get_bits(b, t.pos, 2)
          IN IF ~s.ok THEN ExtFail(s.pos)
             ELSE LET k == seek_bits(b, s.pos, 3)
                  IN IF ~k.ok THEN ExtFail(k.pos)
                     ELSE [ok |-> TRUE,
                           ext |-> [temporal_id |-> t.val % 256,
                                    spatial_id |-> s.val % 256],
                           pos |-> k.pos]

NoHeader == [type |-> Reserved(0), has_size |-> FALSE, extension |-> None]

HeaderStop(st, p) == [status |-> st, header |-> NoHeader, pos |-> p]

ObuHeader_decode(b, p) ==
  LET f == seek_bits(b, p, 1)
  IN IF ~f.ok THEN HeaderStop("bounds", f.pos)
     ELSE
     LET c == get_bits(b, f.pos, 4)
     IN IF ~c.ok THEN HeaderStop("bounds", c.pos)
        ELSE
        LET ty == ObuType_try_from(c.val % 256)
        IN IF ty[1] = "Err" THEN HeaderStop("err", c.pos)
           ELSE
           LET x == get_bit(b, c.pos)
           IN IF ~x.ok THEN HeaderStop("bounds", x.pos)
              ELSE
              LET h == get_bit(b, x.pos)
              IN IF ~h.ok THEN HeaderStop("bounds", h.pos)
                 ELSE
                 LET r == seek_bits(b, h.pos, 1)
                 IN IF ~r.ok THEN HeaderStop("bounds", r.pos)
                    ELSE
                    IF x.val
                    THEN LET e == ObuHeaderExtension_decode(b, r.pos)
                         IN IF ~e.ok THEN HeaderStop("bounds", e.pos)
                            ELSE [status |-> "ok",
                                  header |-> [type |-> ty[2],
                                              has_size |-> h.val,
                                              extension |-> Some(e.ext)],
                                  pos |-> e.pos]
                    ELSE [status |-> "ok",
                          header |-> [type |-> ty[2],
                                      has_size |-> h.val,
                                      extension |-> None],
                          pos |-> r.pos]

\* ------------------------------------------------------------------------
\* State
\* ------------------------------------------------------------------------

VARIABLES
  bytes,     \* the byte window the caller's Buffer borrows
  pos,       \* the Buffer's bit position
  ctx,       \* ObuParser.ctx : ObuContext
  pc,        \* "ready"; "panicked" once a call has unwound; "decoded" and
             \* "converted" after a single decode or conversion
  result,    \* value of the last call
  results,   \* values of all calls so far, in order
  prePos,    \* bit position at the start of the last call
  preCtx,    \* ctx at the start of the last call
  hdr,       \* header decoded by the last call, None if it was not decoded
  invoked,   \* collaborator decoder entered by the last call
  overrun,   \* the last call read or sought past the end of the window
             \* while decoding the header or the size
  conv       \* value of the last ObuType::try_from

vars == <<bytes, pos, ctx, pc, result, results, prePos, preCtx, hdr,
          invoked, overrun, conv>>

\* #[derive(Default)] on ObuContext
ObuContext_default ==
  [sequence_header |-> None,
   obu_header_extension |-> None,
   num_planes |-> 0,
   seen_frame_header |-> FALSE,
   frame_is_intra |-> FALSE,
   order_hint |-> 0,
   frame_width |-> 0,
   frame_height |-> 0,
   superres_denom |-> 0,
   upscaled_width |-> 0,
   mi_cols |-> 0,
   mi_rows |-> 0,
   render_width |-> 0,
   render_height |-> 0,
   delta_frame_id |-> 0,
   bit_depth |-> 0,
   order_hint_bits |-> 0,
   operating_point |-> 0,
   operating_point_idc |-> 0,
   frame_type_refs |-> <<>>]

Panic(why) == <<"Panic", why>>

NoCall == <<"None", "None">>

\* ------------------------------------------------------------------------
\* ObuParser::parse
\* ------------------------------------------------------------------------

NoSize(p) == [ok |-> TRUE, val |-> 0, pos |-> p]

\* Mutant: the size field is never read.
ReadSize_never(header, b, p) == NoSize(p)

\* let size = if header.has_size { Some(buf.get_leb128() as usize) } else { None }
ReadSize(header, b, p) ==
  IF header.has_size THEN get_leb128(b, p) ELSE NoSize(p)

\* (1 >> ext.temporal_id) & 1
in_temporal_layer(ext) == Shr(1, ext.temporal_id) % 2

\* (1 >> (ext.spatial_id + 8)) & 1
in_spatial_layer(ext) == Shr(1, ext.spatial_id + 8) % 2

\* Mutant: the operating point is not consulted.
FilterGuard_any_idc(type, c) ==
  /\ type # SequenceHeader
  /\ type # TemporalDelimiter

FilterGuard(type, c) ==
  /\ type # SequenceHeader
  /\ type # TemporalDelimiter
  /\ c.operating_point_idc # 0

LayerFilterDrops(header, c) ==
  /\ FilterGuard(header.type, c)
  /\ header.extension # None
  /\ LET ext == header.extension[2]
     IN in_temporal_layer(ext) = 0 \/ in_spatial_layer(ext) = 0

\* Mutant: the SequenceHeader and Frame arms are exchanged.
Dispatch_swapped(type) ==
  IF type = SequenceHeader THEN "Frame"
  ELSE IF type = Frame THEN "SequenceHeader"
  ELSE IF type = TemporalDelimiter THEN "TemporalDelimiter"
  ELSE "todo"

\* match header.r#type { ... }
Dispatch(type) ==
  IF type = SequenceHeader THEN "SequenceHeader"
  ELSE IF type = Frame THEN "Frame"
  ELSE IF type = TemporalDelimiter THEN "TemporalDelimiter"
  ELSE "todo"

\* Frame::decode is todo!(): it unwinds without touching ctx or the cursor.
Frame_decode(c, b, p) == [value |-> Panic("todo"), ctx |-> c, pos |-> p]

\* SequenceHeader::decode (spec section 6): consumes the bits of its own
\* syntax, here k >= 1 whole bytes, and on success caches the sequence
\* header and populates the context; the selected operating point comes
\* from the payload.  It is not handed the decoded size.
SequenceHeader_decode(c, b, p) ==
  LET left == Len(b) - (p \div 8)
  IN IF left < 1
     THEN {[value |-> Panic("bounds"), ctx |-> c, pos |-> p]}
     ELSE {[value |-> Ok("SequenceHeader"),
            ctx |-> [c EXCEPT !.sequence_header = Some("SequenceHeader"),
                              !.operating_point_idc = idc,
                              !.bit_depth = 8,
                              !.num_planes = 3],
            pos |-> p + 8 * k] : k \in 1..left, idc \in OpIdcSet}
          \cup {[value |-> Err("Unknown(Profile)"), ctx |-> c, pos |-> p + 8]}

Return(res, p, c, h, inv, ovr) ==
  /\ result' = res
  /\ results' = Append(results, res)
  /\ pos' = p
  /\ ctx' = c
  /\ hdr' = h
  /\ invoked' = inv
  /\ overrun' = ovr
  /\ prePos' = pos
  /\ preCtx' = ctx
  /\ pc' = IF res[1] = "Panic" THEN "panicked" ELSE "ready"
  /\ UNCHANGED <<bytes, conv>>

parse ==
  /\ pc = "ready"
  /\ \E d \in {ObuHeader_decode(bytes, pos)} :
       IF d.status = "bounds"
       THEN Return(Panic("bounds"), d.pos, ctx, None, "none", TRUE)
       ELSE IF d.status = "err"
       THEN Return(Err("Unknown(ObuHeaderType)"), d.pos, ctx, None, "none", FALSE)
       ELSE
       \E size \in {ReadSize(d.header, bytes, d.pos)} :
         IF ~size.ok
         THEN Return(Panic("bounds"), size.pos, ctx, Some(d.header), "none", TRUE)
         ELSE IF LayerFilterDrops(d.header, ctx)
         THEN Return(Ok("Drop"), size.pos, ctx, Some(d.header), "none", FALSE)
         ELSE IF Dispatch(d.header.type) = "SequenceHeader"
         THEN \E o \in SequenceHeader_decode(ctx, bytes, size.pos) :
                Return(o.value, o.pos, o.ctx, Some(d.header),
                       "SequenceHeader::decode", FALSE)
         ELSE IF Dispatch(d.header.type) = "Frame"
         THEN \E o \in {Frame_decode(ctx, bytes, size.pos)} :
                Return(o.value, o.pos, o.ctx, Some(d.header),
                       "Frame::decode", FALSE)
         ELSE IF Dispatch(d.header.type) = "TemporalDelimiter"
         THEN Return(Ok("TemporalDelimiter"), size.pos, ctx,
                     Some(d.header), "none", FALSE)
         ELSE Return(Panic("todo"), size.pos, ctx, Some(d.header),
                     "none", FALSE)

\* A parser from ObuParser::default() and a Buffer::new over a window.
Init ==
  /\ bytes \in UNION {[1..n -> ByteSet] : n \in 0..MaxLen}
  /\ pos = 0
  /\ ctx = ObuContext_default
  /\ pc = "ready"
  /\ result = NoCall
  /\ results = <<>>
  /\ prePos = 0
  /\ preCtx = ObuContext_default
  /\ hdr = None
  /\ invoked = "none"
  /\ overrun = FALSE
  /\ conv = NoCall

Next == parse

Spec == Init /\ [][Next]_vars

\* ------------------------------------------------------------------------
\* Single decodes and conversions over every byte value
\* ------------------------------------------------------------------------

\* One call of ObuHeader::decode on a fresh cursor.
DecodeHeader ==
  /\ pc = "ready"
  /\ LET d == ObuHeader_decode(bytes, pos)
     IN /\ hdr' = IF d.status = "ok" THEN Some(d.header) ELSE None
        /\ result' = IF d.status = "ok" THEN Ok("ObuHeader")
                     ELSE IF d.status = "err" THEN Err("Unknown(ObuHeaderType)")
                     ELSE Panic("bounds")
        /\ pos' = d.pos
        /\ overrun' = (d.status = "bounds")
  /\ prePos' = pos
  /\ pc' = "decoded"
  /\ UNCHANGED <<bytes, ctx, results, preCtx, invoked, conv>>

\* One call of ObuType::try_from on the u8 in bytes[1].
TryFrom ==
  /\ pc = "ready"
  /\ conv' = ObuType_try_from(bytes[1])
  /\ pc' = "converted"
  /\ UNCHANGED <<bytes, pos, ctx, result, results, prePos, preCtx, hdr,
                 invoked, overrun>>

InitPure ==
  /\ bytes \in UNION {[1..n -> 0..255] : n \in 1..2}
  /\ pos = 0
  /\ ctx = ObuContext_default
  /\ pc = "ready"
  /\ result = NoCall
  /\ results = <<>>
  /\ prePos = 0
  /\ preCtx = ObuContext_default
  /\ hdr = None
  /\ invoked = "none"
  /\ overrun = FALSE
  /\ conv = NoCall

NextPure == DecodeHeader \/ TryFrom

SpecPure == InitPure /\ [][NextPure]_vars

\* ------------------------------------------------------------------------
\* The unit of the last call, read from the raw bytes of the window
\* ------------------------------------------------------------------------

ByteAtBit(p) == bytes[(p \div 8) + 1]

HdrByte == ByteAtBit(prePos)

TypeCode == (HdrByte \div 8) % 16

ExtFlag == (HdrByte \div 4) % 2 = 1

SizeFlag == (HdrByte \div 2) % 2 = 1

ExtByte == ByteAtBit(prePos + 8)

ExtOfByte(e) == [temporal_id |-> e \div 32, spatial_id |-> (e \div 8) % 4]

HeaderBits == IF ExtFlag THEN 16 ELSE 8

\* Bytes of the leb128 field whose first byte is bytes[i], as far as the
\* window holds them.
RECURSIVE LebBytes(_)
LebBytes(i) ==
  IF i > Len(bytes) THEN 0
  ELSE IF bytes[i] < 128 THEN 1
  ELSE 1 + LebBytes(i + 1)

SizeBits ==
  IF SizeFlag THEN 8 * LebBytes(((prePos + HeaderBits) \div 8) + 1) ELSE 0

\* Bit n of the mask m.
BitOf(m, n) == (m \div (2 ^ n)) % 2

\* The last call decoded a header and, if flagged, a size inside the window.
UnitRead == result # NoCall /\ hdr # None /\ ~overrun

\* ------------------------------------------------------------------------
\* Claims
\* ------------------------------------------------------------------------

\* C1: a unit that is neither SequenceHeader nor TemporalDelimiter, parsed
\* with operating_point_idc # 0 and an extension, is dropped if and only if
\* bit temporal_id or bit spatial_id + 8 of operating_point_idc is clear.
C1_DropIffLayerExcluded ==
  (UnitRead /\ TypeCode \notin {1, 2} /\ preCtx.operating_point_idc # 0 /\ ExtFlag)
    => ((result = Ok("Drop"))
          <=> (\/ BitOf(preCtx.operating_point_idc, ExtOfByte(ExtByte).temporal_id) = 0
               \/ BitOf(preCtx.operating_point_idc, ExtOfByte(ExtByte).spatial_id + 8) = 0))

\* C2: parse returns Obu::Drop only for a unit that is neither
\* SequenceHeader nor TemporalDelimiter, with a nonzero operating_point_idc
\* and a header extension.
C2_DropOnlyUnderFilter ==
  (result = Ok("Drop"))
    => (/\ TypeCode \notin {1, 2}
        /\ preCtx.operating_point_idc # 0
        /\ ExtFlag)

C2_Witness ==
  /\ result = Ok("Drop")
  /\ TypeCode = 6
  /\ preCtx.operating_point_idc = 257

\* C3: when parse returns Obu::Drop no collaborator decoder was entered, the
\* context is as before the call, and the cursor has advanced by the header
\* bits plus the bytes of the leb128 size field if has_size is set.
C3_DropFrame ==
  (result = Ok("Drop"))
    => (/\ invoked = "none"
        /\ ctx = preCtx
        /\ pos = prePos + HeaderBits + SizeBits)

C3_Witness ==
  /\ result = Ok("Drop")
  /\ SizeFlag
  /\ pos = prePos + 24

\* C4: a cursor read or seek past the end of the window while decoding the
\* header or the size ends the call with an Err value.
C4_OverrunIsErr == overrun => result[1] = "Err"

\* C5: a Frame unit parsed while ctx.sequence_header is None gives
\* Err(NotFoundSequenceHeader) and leaves the context unmodified.
C5_FrameWithoutSequenceHeader ==
  (UnitRead /\ TypeCode = 6 /\ preCtx.sequence_header = None
     /\ result # Ok("Drop"))
    => (result = Err("NotFoundSequenceHeader") /\ ctx = preCtx)

\* C6: ObuHeader::decode at a byte boundary yields the type of code
\* (b >> 3) & 15, has_size = bit 1 of b, and no extension in 8 bits when
\* bit 2 of b is clear, or the extension {e >> 5, (e >> 3) & 3} in 16 bits
\* when it is set, whatever the forbidden and reserved bits.
C6_HeaderLayout ==
  (pc = "decoded" /\ (~ExtFlag \/ Len(bytes) = 2))
    => (/\ result = Ok("ObuHeader")
        /\ hdr = Some([type |-> ObuType_try_from(TypeCode)[2],
                       has_size |-> SizeFlag,
                       extension |-> IF ExtFlag
                                     THEN Some(ExtOfByte(ExtByte))
                                     ELSE None])
        /\ pos = IF ExtFlag THEN 16 ELSE 8)

C6_Witness ==
  /\ pc = "decoded"
  /\ bytes = <<148, 72>>
  /\ hdr = Some([type |-> TemporalDelimiter, has_size |-> FALSE,
                 extension |-> Some([temporal_id |-> 2, spatial_id |-> 1])])
  /\ pos = 16

\* C7: over any sequence of parse calls the cursor never moves back and
\* each call decodes the header found where the previous call stopped; a
\* TemporalDelimiter unit followed by a SequenceHeader unit gives
\* Obu::TemporalDelimiter and then the value of SequenceHeader::decode.
C7_Step ==
  /\ pos' >= pos
  /\ prePos' = pos
  /\ hdr' # None
       => hdr'[2].type = ObuType_try_from((ByteAtBit(pos) \div 8) % 16)[2]
  /\ (results = <<>> /\ hdr' # None /\ ~overrun' /\ hdr'[2].type = TemporalDelimiter)
       => result' = Ok("TemporalDelimiter")
  /\ (results = <<Ok("TemporalDelimiter")>> /\ hdr' # None /\ ~overrun'
        /\ hdr'[2].type = SequenceHeader)
       => (/\ invoked' = "SequenceHeader::decode"
           /\ result'[1] = "Ok" => result' = Ok("SequenceHeader"))

C7_CursorPersists == [][C7_Step]_vars

C7_Witness ==
  /\ results = <<Ok("TemporalDelimiter"), Ok("SequenceHeader")>>
  /\ prePos > 0
  /\ pos > prePos

\* C8: ObuType::try_from maps 1..8 and 15 to the named types, 0 and 9..14
\* to Reserved(code), fails only above 15, and so never fails inside
\* ObuHeader::decode.
C8_Expected(v) ==
  CASE v = 1 -> Ok(SequenceHeader)
    [] v = 2 -> Ok(TemporalDelimiter)
    [] v = 3 -> Ok(FrameHeader)
    [] v = 4 -> Ok(TileGroup)
    [] v = 5 -> Ok(Metadata)
    [] v = 6 -> Ok(Frame)
    [] v = 7 -> Ok(RedundantFrameHeader)
    [] v = 8 -> Ok(TileList)
    [] v = 15 -> Ok(Padding)
    [] v \in {0, 9, 10, 11, 12, 13, 14} -> Ok(Reserved(v))
    [] OTHER -> Err("Unknown(ObuHeaderType)")

C8_TypeCodes ==
  /\ pc = "converted" => conv = C8_Expected(bytes[1])
  /\ pc = "decoded" => result # Err("Unknown(ObuHeaderType)")

C8_Witness ==
  /\ pc = "converted"
  /\ bytes[1] = 14
  /\ conv = Ok(Reserved(14))

\* C9 as stated: a TemporalDelimiter unit gives Obu::TemporalDelimiter with
\* the cursor advanced by the header bits only, also when has_size is set.
C9_HeaderBitsOnly ==
  (UnitRead /\ TypeCode = 2)
    => (/\ result = Ok("TemporalDelimiter")
        /\ pos = prePos + HeaderBits
        /\ ctx = preCtx)

\* C9 amended: a TemporalDelimiter unit whose header and size field lie in
\* the window gives Obu::TemporalDelimiter with the cursor advanced by the
\* header bits plus the bytes of the leb128 size field if has_size is set,
\* no collaborator entered and the context unchanged.
C9_HeaderAndSizeBits ==
  (UnitRead /\ TypeCode = 2)
    => (/\ result = Ok("TemporalDelimiter")
        /\ invoked = "none"
        /\ pos = prePos + HeaderBits + SizeBits
        /\ ctx = preCtx)

C9_Witness ==
  /\ result = Ok("TemporalDelimiter")
  /\ ExtFlag
  /\ SizeFlag
  /\ pos = prePos + 32

\* C10: after a parse call whose header carries an extension,
\* ctx.obu_header_extension holds that extension.
C10_ExtensionCopied ==
  (UnitRead /\ result[1] = "Ok" /\ ExtFlag)
    => ctx.obu_header_extension = Some(ExtOfByte(ExtByte))

====
